---------------------------- MODULE Spec2Model ----------------------------
(***************************************************************************)
(* Sales dashboard: the expiring cache (Cache<T>), the cache key           *)
(* (getCacheKey = JSON.stringify of the request's parameter object) and    *)
(* the SalesDashboard component's fetch / pagination state machine.        *)
(*                                                                         *)
(* Strings of the program are sequences of one-character strings, so that  *)
(* JSON.stringify and the `<=` of two date strings are computed character  *)
(* by character.  A JavaScript object is the sequence of its               *)
(* <<key, value>> pairs in insertion order, which is the order             *)
(* JSON.stringify and Object.entries enumerate them in.                    *)
(***************************************************************************)
EXTENDS Integers, Sequences, FiniteSets, TLC

VARIABLES
    now,        \* Date.now(), in ticks
    store,      \* SpecCache: the Cache<T> instance under test
    ret,        \* SpecCache: the last operation and what it returned;
                \* SpecNav: the last handler applied and the state it found
    ref,        \* SpecCache: reference map key -> last set not cleared/evicted
    gone,       \* SpecCache: keys a get/has found expired, until the next set
    p1,         \* SpecKey: first parameter object
    p2,         \* SpecKey: second parameter object
    key1,       \* SpecKey: getCacheKey(p1) once computed
    key2,       \* SpecKey: getCacheKey(p2) once computed
    phase,      \* SpecKey, SpecNav: "input" | "done"
    state,      \* Spec: the component's useState values
    tokenCache, \* Spec: the module's Cache<string>
    dataCache,  \* Spec: the module's Cache<SalesResponse>
    authCalls,  \* Spec: POST /getAuthorize requests in flight
    inflight,   \* Spec: GET /sales requests in flight, in the order sent
    effectDeps, \* Spec: dependencies the filter-change effect last ran with
    nUser,      \* Spec: number of user actions so far
    call,       \* Spec: the fetchSales invocation of the last step (history)
    latest,     \* Spec: the most recently initiated fetch (history)
    fetched,    \* Spec: key -> last successful network response (history)
    nav,        \* Spec: the last goNext and its response (history)
    got,        \* SpecAuth: the last getAuthToken step and the last stored token
    swr         \* SpecSwr: the SWR variant's token, error, localStorage, timer

cacheVars == <<store, ret, ref, gone>>
keyVars == <<p1, p2, key1, key2, phase>>
dashVars == <<state, tokenCache, dataCache, authCalls, inflight, effectDeps,
              nUser, call, latest, fetched, nav, got, swr>>
vars == <<now, store, ret, ref, gone, p1, p2, key1, key2, phase, state, tokenCache,
          dataCache, authCalls, inflight, effectDeps, nUser, call,
          latest, fetched, nav, got, swr>>

(***************************************************************************)
(* Time.  One tick is one hour, so the caches' 60 * 60 * 1000 ms are one   *)
(* tick.                                                                   *)
(***************************************************************************)
OneHour == 1

MaxTime == 3

Times == 0..MaxTime

(***************************************************************************)
(* JavaScript values: null, and the truthiness of a string.                *)
(***************************************************************************)
Null == [tag |-> "null"]

Some(v) == [tag |-> "val", v |-> v]

IsNull(x) == x.tag = "null"

(***************************************************************************)
(* class Cache<T>                                                          *)
(***************************************************************************)
\* new Cache<T>(durationMs): an empty Map and the duration.
NewCache(durationMs) == [cache |-> <<>>, duration |-> durationMs]

\* Map.prototype.delete
MapDelete(m, key) == [k \in (DOMAIN m) \ {key} |-> m[k]]

\* Map.prototype.set
MapSet(m, key, item) == [k \in (DOMAIN m) \cup {key} |-> IF k = key THEN item ELSE m[k]]

\* Variant: no entry is ever young enough.
CacheNeverFresh(c, key, t) == FALSE

\* Mutant: the expiry test off by one (<= for <).
CacheFreshInclusive(c, key, t) ==
    /\ key \in DOMAIN c.cache
    /\ t - c.cache[key].timestamp <= c.duration

\* The test of Cache.get: an entry is there and younger than the duration.
CacheFresh(c, key, t) ==
    /\ key \in DOMAIN c.cache
    /\ t - c.cache[key].timestamp < c.duration

\* Mutant: get leaves the stale entry in the Map.
CacheEvictNothing(c, key) == c

\* What get does to the instance when the entry is not fresh: cache.delete(key).
CacheEvict(c, key) == [c EXCEPT !.cache = MapDelete(c.cache, key)]

\* Cache.get at time t: the value returned and the instance afterwards.
CacheGet(c, key, t) ==
    IF CacheFresh(c, key, t)
    THEN [value |-> Some(c.cache[key].data), cache |-> c]
    ELSE [value |-> Null, cache |-> CacheEvict(c, key)]

\* Cache.set at time t.
CacheSet(c, key, data, t) ==
    [c EXCEPT !.cache = MapSet(c.cache, key, [data |-> data, timestamp |-> t])]

\* Cache.clear
CacheClear(c) == [c EXCEPT !.cache = <<>>]

\* Variant: has that looks at the entry and leaves it in the Map.
CacheHasPeek(c, key, t) == [value |-> CacheFresh(c, key, t), cache |-> c]

\* Cache.has at time t: get(key) !== null, with get's effect on the instance.
CacheHas(c, key, t) ==
    LET g == CacheGet(c, key, t)
    IN  [value |-> ~IsNull(g.value), cache |-> g.cache]


\* The dashboard's variables in the specifications that do not run it.
DashOff ==
    /\ state = <<>> /\ tokenCache = <<>> /\ dataCache = <<>> /\ authCalls = 0
    /\ inflight = <<>> /\ effectDeps = <<>> /\ nUser = 0
    /\ call = <<>> /\ latest = <<>> /\ fetched = <<>> /\ nav = <<>>
    /\ got = <<>> /\ swr = <<>>

(***************************************************************************)
(* SpecCache: one Cache<string> instance driven by set, get, has, clear    *)
(* and the clock.  Date.now() is the wall clock: SetClock may move it      *)
(* either way.  ref and gone are the reference the instance is compared    *)
(* with: ref[k] is the last set(k, v) with its time, dropped by clear and  *)
(* by the get/has that meets it expired; gone[k] is the timestamp of the   *)
(* entry such a get/has met, until the next set(k, _).                     *)
(***************************************************************************)
CacheKeys == {"k1", "k2"}

CacheValues == {"v1", "v2"}

RefFresh(r, key, t) == key \in DOMAIN r /\ t - r[key].timestamp < OneHour

RefAfterRead(r, key, t) == IF RefFresh(r, key, t) THEN r ELSE MapDelete(r, key)

GoneAfterRead(g, r, key, t) ==
    IF key \in DOMAIN r /\ ~RefFresh(r, key, t)
    THEN MapSet(g, key, r[key].timestamp)
    ELSE g

Had(r, key) == IF key \in DOMAIN r THEN Some(r[key]) ELSE Null

InitCache ==
    /\ now = 0
    /\ store = NewCache(OneHour)
    /\ ret = [op |-> "new", key |-> "", value |-> Null, at |-> 0, had |-> Null,
              wasGone |-> FALSE, goneTs |-> 0]
    /\ ref = <<>>
    /\ gone = <<>>
    /\ p1 = <<>> /\ p2 = <<>> /\ key1 = <<>> /\ key2 = <<>> /\ phase = "off"
    /\ DashOff

DoSet(k, v) ==
    /\ store' = CacheSet(store, k, v, now)
    /\ ref' = MapSet(ref, k, [data |-> v, timestamp |-> now])
    /\ gone' = MapDelete(gone, k)
    /\ ret' = [op |-> "set", key |-> k, value |-> Null, at |-> now, had |-> Had(ref, k),
               wasGone |-> k \in DOMAIN gone, goneTs |-> 0]
    /\ UNCHANGED <<now, keyVars, dashVars>>

DoGet(k) ==
    LET g == CacheGet(store, k, now)
    IN  /\ store' = g.cache
        /\ ref' = RefAfterRead(ref, k, now)
        /\ gone' = GoneAfterRead(gone, ref, k, now)
        /\ ret' = [op |-> "get", key |-> k, value |-> g.value, at |-> now,
                   had |-> Had(ref, k), wasGone |-> k \in DOMAIN gone,
                   goneTs |-> IF k \in DOMAIN gone THEN gone[k] ELSE 0]
        /\ UNCHANGED <<now, keyVars, dashVars>>

DoHas(k) ==
    LET h == CacheHas(store, k, now)
    IN  /\ store' = h.cache
        /\ ref' = RefAfterRead(ref, k, now)
        /\ gone' = GoneAfterRead(gone, ref, k, now)
        /\ ret' = [op |-> "has", key |-> k, value |-> h.value, at |-> now,
                   had |-> Had(ref, k), wasGone |-> k \in DOMAIN gone,
                   goneTs |-> IF k \in DOMAIN gone THEN gone[k] ELSE 0]
        /\ UNCHANGED <<now, keyVars, dashVars>>

DoClear ==
    /\ store' = CacheClear(store)
    /\ ref' = <<>>
    /\ ret' = [op |-> "clear", key |-> "", value |-> Null, at |-> now, had |-> Null,
               wasGone |-> FALSE, goneTs |-> 0]
    /\ UNCHANGED <<now, gone, keyVars, dashVars>>

SetClock(t) ==
    /\ t # now
    /\ now' = t
    /\ UNCHANGED <<cacheVars, keyVars, dashVars>>

NextCache ==
    \/ \E k \in CacheKeys, v \in CacheValues : DoSet(k, v)
    \/ \E k \in CacheKeys : DoGet(k)
    \/ \E k \in CacheKeys : DoHas(k)
    \/ DoClear
    \/ \E t \in Times : SetClock(t)

SpecCache == InitCache /\ [][NextCache]_vars

\* C1: get(k) returns the value v of the most recent set(k, v) exactly when
\* that set, at time t, was neither cleared nor evicted since and
\* now - t < ttl; in every other case, now = t + ttl included, it returns
\* null.
C1_GetReturnsFreshValueOnly ==
    ret.op = "get" =>
        ret.value = IF ~IsNull(ret.had) /\ ret.at - ret.had.v.timestamp < OneHour
                    THEN Some(ret.had.v.data)
                    ELSE Null

\* A get exactly at now = t + ttl of an entry set at t returned null.
C1_Witness ==
    /\ ret.op = "get"
    /\ ~IsNull(ret.had)
    /\ ret.at - ret.had.v.timestamp = OneHour
    /\ IsNull(ret.value)

\* C2: once a get has met k's entry expired the entry is out of the Map
\* until the next set(k, _): every later get(k) returns null and every
\* later has(k) false, whatever the clock reads at those calls.
C2_ExpiredEntryIsRemoved ==
    /\ \A k \in DOMAIN gone : k \notin DOMAIN store.cache
    /\ (ret.op = "get" /\ ret.wasGone) => IsNull(ret.value)
    /\ (ret.op = "has" /\ ret.wasGone) => ret.value = FALSE

\* A has(k) after the eviction, at a clock value at which the evicted
\* entry's timestamp would pass the expiry test again, returned false.
C2_Witness ==
    /\ ret.op = "has"
    /\ ret.wasGone
    /\ ret.at - ret.goneTs < OneHour
    /\ ret.value = FALSE

\* C23: has(k) returns true exactly when get(k), called in its place,
\* returns a value, and has the effect of that get: both are decided by the
\* same test (an entry set for k, not cleared or evicted since, younger than
\* the TTL), neither leaves an entry that fails it, a live entry is left as
\* it was set, and the Map is always the sets that no clear and no get or
\* has has removed, so that nothing but k's expired entry is deleted.
C23_HasIsGet ==
    /\ store.cache = ref
    /\ ret.op \in {"get", "has"} =>
          LET live == ~IsNull(ret.had) /\ ret.at - ret.had.v.timestamp < OneHour
              found == IF ret.op = "has" THEN ret.value ELSE ~IsNull(ret.value)
          IN  /\ found = live
              /\ live => /\ ret.key \in DOMAIN store.cache
                          /\ store.cache[ret.key] = ret.had.v
              /\ ~live => ret.key \notin DOMAIN store.cache

\* has(k) met k's entry expired while the other key had an entry: it
\* returned false, k's entry is gone and the other entry is still there.
C23_Witness ==
    /\ ret.op = "has" /\ ret.value = FALSE
    /\ ~IsNull(ret.had) /\ ret.at - ret.had.v.timestamp >= OneHour
    /\ ret.key \notin DOMAIN store.cache
    /\ store.cache # <<>>


(***************************************************************************)
(* getCacheKey: JSON.stringify of an object whose values are strings.      *)
(***************************************************************************)
RECURSIVE JSONEscape(_)
\* The body of a JSON string: a double quote and a backslash are escaped.
JSONEscape(s) ==
    IF s = <<>> THEN <<>>
    ELSE (IF Head(s) = "\"" THEN <<"\\", "\"">>
          ELSE IF Head(s) = "\\" THEN <<"\\", "\\">>
          ELSE <<Head(s)>>) \o JSONEscape(Tail(s))

\* JSON.stringify of a string.
JSONQuote(s) == <<"\"">> \o JSONEscape(s) \o <<"\"">>

RECURSIVE JSONMembers(_)
\* "key":"value" of each own property in insertion order, separated by commas.
JSONMembers(obj) ==
    IF obj = <<>> THEN <<>>
    ELSE JSONQuote(Head(obj)[1]) \o <<":">> \o JSONQuote(Head(obj)[2])
         \o (IF Tail(obj) = <<>> THEN <<>> ELSE <<",">> \o JSONMembers(Tail(obj)))

\* JSON.stringify of an object of string properties.
JSONStringify(obj) == <<"{">> \o JSONMembers(obj) \o <<"}">>

RECURSIVE JoinValues(_)
\* Mutant: a key made of the values alone, Object.values(filters).join(",").
JoinValues(obj) ==
    IF obj = <<>> THEN <<>>
    ELSE Head(obj)[2] \o (IF Tail(obj) = <<>> THEN <<>> ELSE <<",">> \o JoinValues(Tail(obj)))

getCacheKey(filters) == JSONStringify(filters)

(***************************************************************************)
(* The strings of the program.                                             *)
(***************************************************************************)
S_startDate == <<"s", "t", "a", "r", "t", "D", "a", "t", "e">>
S_endDate == <<"e", "n", "d", "D", "a", "t", "e">>
S_priceMin == <<"p", "r", "i", "c", "e", "M", "i", "n">>
S_email == <<"e", "m", "a", "i", "l">>
S_phone == <<"p", "h", "o", "n", "e">>
S_sortBy == <<"s", "o", "r", "t", "B", "y">>
S_sortOrder == <<"s", "o", "r", "t", "O", "r", "d", "e", "r">>
S_after == <<"a", "f", "t", "e", "r">>
S_before == <<"b", "e", "f", "o", "r", "e">>
S_date == <<"d", "a", "t", "e">>
S_price == <<"p", "r", "i", "c", "e">>
S_asc == <<"a", "s", "c">>
S_desc == <<"d", "e", "s", "c">>
Empty == <<>>

(***************************************************************************)
(* SpecKey: getCacheKey applied to two parameter objects.  The objects are *)
(* all insertion orders of up to MaxFields distinct properties among       *)
(* KeyNames, with values among KeyValues; one value holds the characters   *)
(* JSON.stringify has to escape.                                           *)
(***************************************************************************)
MaxFields == 2

KeyNames == {S_email, S_phone, S_after}

\* a","phone":"a
V_tricky == <<"a", "\"", ",", "\"">> \o S_phone \o <<"\"", ":", "\"", "a">>

KeyValues == {Empty, <<"a">>, V_tricky}

Names(obj) == {obj[i][1] : i \in DOMAIN obj}

\* The value of property name of obj.
Prop(obj, name) == LET i == CHOOSE j \in DOMAIN obj : obj[j][1] = name IN obj[i][2]

RECURSIVE ObjectsOfSize(_)
ObjectsOfSize(n) ==
    IF n = 0 THEN {<<>>}
    ELSE {Append(o, <<k, v>>) : o \in {x \in ObjectsOfSize(n - 1) : TRUE},
                                k \in KeyNames, v \in KeyValues}

Objects ==
    {o \in UNION {ObjectsOfSize(n) : n \in 0..MaxFields} :
        Cardinality(Names(o)) = Len(o)}

\* Same property names, and the same value under each.
FieldwiseEqual(a, b) ==
    /\ Names(a) = Names(b)
    /\ \A name \in Names(a) : Prop(a, name) = Prop(b, name)

InitKey ==
    /\ p1 \in Objects
    /\ p2 \in Objects
    /\ key1 = <<>> /\ key2 = <<>>
    /\ phase = "input"
    /\ now = 0
    /\ store = NewCache(OneHour)
    /\ ret = Null /\ ref = <<>> /\ gone = <<>>
    /\ DashOff

BuildKeys ==
    /\ phase = "input"
    /\ key1' = getCacheKey(p1)
    /\ key2' = getCacheKey(p2)
    /\ phase' = "done"
    /\ UNCHANGED <<now, cacheVars, p1, p2, dashVars>>

NextKey == BuildKeys

SpecKey == InitKey /\ [][NextKey]_vars

\* C9: two parameter objects that are field-wise equal (same keys, same
\* string values), whatever the order their fields were inserted in, get
\* the identical key.
C9_KeyIgnoresConstructionOrder ==
    (phase = "done" /\ FieldwiseEqual(p1, p2)) => key1 = key2

\* C10: two parameter objects that differ in the value of at least one
\* field (or in which fields they carry) get different keys.
C10_KeyInjective ==
    (phase = "done" /\ ~FieldwiseEqual(p1, p2)) => key1 # key2

\* Two objects with the same fields in the same order, differing in one
\* value only, one of them holding a value with quotes in it.
C10_Witness ==
    /\ phase = "done"
    /\ Len(p1) = 2 /\ Len(p2) = 2
    /\ p1[1] = p2[1]
    /\ p1[2][1] = p2[2][1]
    /\ p1[2][2] = V_tricky
    /\ p2[2][2] # V_tricky
    /\ key1 # key2


(***************************************************************************)
(* SalesDashboard: strings, the derived isDateRangeValid, the request.     *)
(***************************************************************************)
D_0101 == <<"2", "0", "2", "5", "-", "0", "1", "-", "0", "1">>
D_0131 == <<"2", "0", "2", "5", "-", "0", "1", "-", "3", "1">>
D_0201 == <<"2", "0", "2", "5", "-", "0", "2", "-", "0", "1">>
TOKEN_CACHE_KEY == <<"a", "u", "t", "h", "_", "t", "o", "k", "e", "n">>
E_Authorize == "Failed to authorize. Please refresh the page."
E_Range == "Please select a valid date range (start date must be before or equal to end date)"
E_Load == "Failed to load sales data. Please try again."

\* A string is falsy only when empty.
Truthy(s) == s # <<>>

\* string | null: falsy when null or empty.
TruthyOrNull(x) == ~IsNull(x) /\ Truthy(x.v)

\* value || ""
OrEmpty(s) == IF Truthy(s) THEN s ELSE Empty

\* UTF-16 code units of the characters date strings are made of.
CharCode(c) ==
    CASE c = "-" -> 45 [] c = "0" -> 48 [] c = "1" -> 49 [] c = "2" -> 50
      [] c = "3" -> 51 [] c = "4" -> 52 [] c = "5" -> 53 [] c = "6" -> 54
      [] c = "7" -> 55 [] c = "8" -> 56 [] c = "9" -> 57

RECURSIVE StrLeq(_, _)
\* a <= b on strings: by code unit, a proper prefix first.
StrLeq(a, b) ==
    IF a = <<>> THEN TRUE
    ELSE IF b = <<>> THEN FALSE
    ELSE IF Head(a) = Head(b) THEN StrLeq(Tail(a), Tail(b))
    ELSE CharCode(Head(a)) < CharCode(Head(b))

\* Variant: no validation of the date range.
isDateRangeValidAlways(st) == TRUE

isDateRangeValid(st) ==
    ~Truthy(st.startDate) \/ ~Truthy(st.endDate) \/ StrLeq(st.startDate, st.endDate)

\* The useState initial values.
InitialState ==
    [authToken |-> Null, totalSalesData |-> <<>>, salesData |-> <<>>,
     loading |-> FALSE, error |-> Null,
     startDate |-> D_0101, endDate |-> D_0131, priceMin |-> Empty,
     email |-> Empty, phone |-> Empty,
     beforeToken |-> Empty, afterToken |-> Empty, currentPage |-> 1,
     sortBy |-> S_date, sortOrder |-> S_asc]

\* Mutant: both cursors of the state are sent, whatever the direction.
CursorPropsBoth(cl, direction) ==
    (IF Truthy(cl.afterToken) THEN << <<S_after, cl.afterToken>> >> ELSE <<>>)
    \o (IF Truthy(cl.beforeToken) THEN << <<S_before, cl.beforeToken>> >> ELSE <<>>)

\* The cursor properties spread into the filters object for a direction.
CursorProps(cl, direction) ==
    (IF direction = "next" /\ Truthy(cl.afterToken)
     THEN << <<S_after, cl.afterToken>> >> ELSE <<>>)
    \o (IF direction = "prev" /\ Truthy(cl.beforeToken)
        THEN << <<S_before, cl.beforeToken>> >> ELSE <<>>)

\* const filters = { startDate, ..., sortOrder, ...after, ...before } of the
\* render cl that created fetchSales.
BuildFilters(cl, direction) ==
    << <<S_startDate, cl.startDate>>, <<S_endDate, cl.endDate>>,
       <<S_priceMin, cl.priceMin>>, <<S_email, cl.email>>, <<S_phone, cl.phone>>,
       <<S_sortBy, cl.sortBy>>, <<S_sortOrder, cl.sortOrder>> >>
    \o CursorProps(cl, direction)

\* URLSearchParams of fetchSalesData: every entry appended, value || "".
SearchParams(params) == [i \in DOMAIN params |-> <<params[i][1], OrEmpty(params[i][2])>>]

\* The value of a query parameter of a request; "" when it is not sent.
Param(url, name) == IF name \in Names(url) THEN Prop(url, name) ELSE Empty

\* Mutant: the rows are replaced and the cursors are left as they were.
AdoptRowsOnly(st, data) ==
    [st EXCEPT !.totalSalesData = data.results.TotalSales,
               !.salesData = data.results.Sales]

\* setTotalSalesData, setSalesData, setBeforeToken, setAfterToken from a response.
Adopt(st, data) ==
    [st EXCEPT !.totalSalesData = data.results.TotalSales,
               !.salesData = data.results.Sales,
               !.beforeToken = OrEmpty(data.pagination.before),
               !.afterToken = OrEmpty(data.pagination.after)]

\* const x = ...; F(x): F applied to the value of x, computed once.
Const(x, F(_)) == CHOOSE r \in {F(v) : v \in {x}} : TRUE

\* fetchSales(direction) of the render cl, up to its return or its await:
\* st is the state the setters act on, c the data cache, t the time.
FetchSales(cl, st, direction, c, t) ==
    LET started == [st EXCEPT !.loading = TRUE, !.error = Null]
    IN  IF ~TruthyOrNull(cl.authToken)
        THEN [outcome |-> "noToken", state |-> st, dataCache |-> c,
              filters |-> <<>>, cacheKey |-> <<>>]
        ELSE IF ~isDateRangeValid(cl)
        THEN [outcome |-> "invalid", state |-> [st EXCEPT !.error = Some(E_Range)],
              dataCache |-> c, filters |-> <<>>, cacheKey |-> <<>>]
        ELSE Const(BuildFilters(cl, direction), LAMBDA filters :
             Const(getCacheKey(filters), LAMBDA cacheKey :
             Const(CacheGet(c, cacheKey, t), LAMBDA g :
                 IF ~IsNull(g.value)
                 THEN [outcome |-> "hit",
                       state |-> [Adopt(started, g.value.v) EXCEPT !.loading = FALSE],
                       dataCache |-> g.cache, filters |-> filters, cacheKey |-> cacheKey]
                 ELSE [outcome |-> "miss", state |-> started, dataCache |-> g.cache,
                       filters |-> filters, cacheKey |-> cacheKey])))

\* What fetchSales and the filter-change effect depend on: a change of any
\* of these between two renders makes a new fetchSales and runs the effect.
Deps(st) ==
    <<st.authToken, st.startDate, st.endDate, st.priceMin, st.email, st.phone,
      st.sortBy, st.sortOrder, st.afterToken, st.beforeToken>>

\* Mutant: the effect resets the cursors and forgets the page.
EffectResetCursorsOnly(st) ==
    [st EXCEPT !.beforeToken = Empty, !.afterToken = Empty]

\* The effect's three setters before it calls fetchSales().
EffectReset(st) ==
    [st EXCEPT !.currentPage = 1, !.beforeToken = Empty, !.afterToken = Empty]

\* Variant: previous goes back two pages.
PreviousPageByTwo(st) == [st EXCEPT !.currentPage = st.currentPage - 2]

\* handlePrevious' setCurrentPage((p) => p - 1).
PreviousPage(st) == [st EXCEPT !.currentPage = st.currentPage - 1]

\* Variant: a sort that always flips the order.
SortAlwaysFlips(st, field) ==
    [st EXCEPT !.sortBy = field,
               !.sortOrder = IF st.sortOrder = S_asc THEN S_desc ELSE S_asc,
               !.currentPage = 1]

\* handleSort's setters.
SortToggle(st, field) ==
    [st EXCEPT !.sortBy = field,
               !.sortOrder = IF st.sortBy = field
                             THEN (IF st.sortOrder = S_asc THEN S_desc ELSE S_asc)
                             ELSE S_asc,
               !.currentPage = 1]


(***************************************************************************)
(* The remote API as the dashboard consumes it.  The rows of a response    *)
(* name the query they answer (the request's parameters, serialized), so   *)
(* that the rows on display tell which query they belong to; the cursors   *)
(* are the server's choice.                                                *)
(***************************************************************************)
Tokens == {<<"T">>}

C_1 == <<"c", "1">>
C_2 == <<"c", "2">>

Paginations ==
    {[before |-> Empty, after |-> C_1],
     [before |-> C_1, after |-> C_2]}

ServerResponses(req) ==
    {[results |-> [TotalSales |-> <<>>, Sales |-> <<>>],
      pagination |-> [before |-> Empty, after |-> Empty]]}
    \cup
    {[results |-> [TotalSales |-> <<[day |-> D_0101, totalSale |-> 200],
                                    [day |-> D_0131, totalSale |-> 300]>>,
                   Sales |-> <<[_id |-> req.cacheKey, price |-> 500]>>],
      pagination |-> pg] : pg \in Paginations}

FailureKinds == {"network", "status", "malformed"}

(***************************************************************************)
(* Spec: the SalesDashboard component.  A step is one task of the event    *)
(* loop: a user event, the completion of a request, or the flush of the    *)
(* filter-change effect, which React runs after the render that changed    *)
(* its dependencies and before it handles the next event.  The setters of  *)
(* one task are batched; a handler reads the values of the render that     *)
(* created it, which is the current state when no effect is pending.       *)
(***************************************************************************)
MaxUser == 2

MaxInflight == 2

MaxClock == OneHour

FilterFields == {"startDate", "endDate", "priceMin", "email", "phone"}

FilterValues(field) ==
    CASE field = "startDate" -> {D_0101, D_0201}
      [] field = "endDate" -> {D_0131, Empty}
      [] field = "priceMin" -> {Empty, <<"5">>}
      [] field = "email" -> {Empty, <<"a">>}
      [] field = "phone" -> {Empty, <<"1">>}

SortFields == {S_date, S_price}

NoCall == [outcome |-> "none", cacheKey |-> <<>>, trigger |-> "none", pageBefore |-> 0,
           fresh |-> FALSE, sent |-> FALSE]

NoNav == [pageBefore |-> 0, user |-> 0, resp |-> Null]

\* No effect is waiting to be flushed.
Settled == Deps(state) = effectDeps

\* Which dependency change the waiting effect is run for.
FilterPending == \E i \in 2..6 : Deps(state)[i] # effectDeps[i]

SortPending == \E i \in 7..8 : Deps(state)[i] # effectDeps[i]

Trigger ==
    IF FilterPending THEN "filter"
    ELSE IF SortPending THEN "sort"
    ELSE IF Deps(state)[1] # effectDeps[1] THEN "auth"
    ELSE "cursor"

\* SalesTable renders its header and pagination buttons.
TableShown == ~state.loading /\ state.salesData # <<>>

hasNextPage == Truthy(state.afterToken)

hasPreviousPage == Truthy(state.beforeToken) /\ state.currentPage > 1

RemoveAt(seq, i) == SubSeq(seq, 1, i - 1) \o SubSeq(seq, i + 1, Len(seq))

\* The user acts: at most MaxUser times, and not with MaxInflight requests
\* already waiting.
UserCan == Settled /\ nUser < MaxUser /\ Len(inflight) < MaxInflight

Init ==
    /\ now = 0
    /\ state = InitialState
    /\ tokenCache = NewCache(OneHour)
    /\ dataCache = NewCache(OneHour)
    /\ authCalls = 1
    /\ inflight = <<>>
    /\ effectDeps = Deps(InitialState)
    /\ nUser = 0
    /\ call = NoCall
    /\ latest = [cacheKey |-> <<>>, result |-> "none"]
    /\ fetched = <<>>
    /\ nav = NoNav
    /\ got = <<>> /\ swr = <<>>
    /\ store = <<>> /\ ret = <<>> /\ ref = <<>> /\ gone = <<>>
    /\ p1 = <<>> /\ p2 = <<>> /\ key1 = <<>> /\ key2 = <<>> /\ phase = "off"

offVars == <<store, ret, ref, gone, p1, p2, key1, key2, phase, got, swr>>

\* The requests in flight once fetchSales invocation f has run: on a miss
\* its request is the latest one, and the one of goNext when isNav.
Sent(f, isNav) ==
    IF f.outcome = "miss"
    THEN Append([i \in DOMAIN inflight |-> [inflight[i] EXCEPT !.latest = FALSE]],
                [token |-> state.authToken.v, url |-> SearchParams(f.filters),
                 cacheKey |-> f.cacheKey, latest |-> TRUE, nav |-> isNav])
    ELSE IF f.outcome = "hit"
    THEN [i \in DOMAIN inflight |-> [inflight[i] EXCEPT !.latest = FALSE]]
    ELSE inflight

\* The variables a fetchSales invocation f sets.
Invoke(f, trigger, isNav) ==
    /\ state' = f.state
    /\ dataCache' = f.dataCache
    /\ inflight' = Sent(f, isNav)
    /\ call' = [outcome |-> f.outcome, cacheKey |-> f.cacheKey, trigger |-> trigger,
                pageBefore |-> state.currentPage,
                fresh |-> /\ f.cacheKey \in DOMAIN fetched
                          /\ now - fetched[f.cacheKey].timestamp < OneHour,
                sent |-> Len(Sent(f, isNav)) > Len(inflight)]
    /\ latest' = IF f.outcome = "miss"
                 THEN [cacheKey |-> f.cacheKey, result |-> "pending"]
                 ELSE IF f.outcome = "hit"
                 THEN [cacheKey |-> f.cacheKey, result |-> "hit"]
                 ELSE latest

\* The authorize effect's request succeeds: getAuthToken caches the token
\* and authorize sets it.
AuthorizeOk(tok) ==
    /\ authCalls > 0
    /\ Settled
    /\ authCalls' = authCalls - 1
    /\ tokenCache' = CacheSet(tokenCache, TOKEN_CACHE_KEY, tok, now)
    /\ state' = [state EXCEPT !.authToken = Some(tok)]
    /\ call' = NoCall
    /\ UNCHANGED <<now, dataCache, inflight, effectDeps, nUser, latest, fetched, nav,
                   offVars>>

\* Variant: authorize swallows the failure.
AuthFailedSilently(st) == st

\* authorize's catch block.
AuthFailed(st) == [st EXCEPT !.error = Some(E_Authorize)]

\* The request fails or answers non-2xx: getAuthToken throws.
AuthorizeFail ==
    /\ authCalls > 0
    /\ Settled
    /\ authCalls' = authCalls - 1
    /\ state' = AuthFailed(state)
    /\ call' = NoCall
    /\ UNCHANGED <<now, tokenCache, dataCache, inflight, effectDeps, nUser, latest,
                   fetched, nav, offVars>>

\* The filter-change effect, run for the render whose dependencies changed.
FlushEffect ==
    /\ ~Settled
    /\ LET st == IF TruthyOrNull(state.authToken) THEN EffectReset(state) ELSE state
       IN  \E f \in {FetchSales(state, st, "none", dataCache, now)} :
               Invoke(f, Trigger, FALSE)
    /\ effectDeps' = Deps(state)
    /\ UNCHANGED <<now, tokenCache, authCalls, nUser, fetched, nav, offVars>>

\* onStartDateChange ... onPhoneChange: the setter of one filter field.
SetFilter(field, v) ==
    /\ UserCan
    /\ v # state[field]
    /\ state' = [state EXCEPT ![field] = v]
    /\ nUser' = nUser + 1
    /\ call' = NoCall
    /\ UNCHANGED <<now, tokenCache, dataCache, authCalls, inflight, effectDeps, latest,
                   fetched, nav, offVars>>

\* A click on a column header of the table.
HandleSort(field) ==
    /\ UserCan
    /\ TableShown
    /\ state' = SortToggle(state, field)
    /\ nUser' = nUser + 1
    /\ call' = NoCall
    /\ UNCHANGED <<now, tokenCache, dataCache, authCalls, inflight, effectDeps, latest,
                   fetched, nav, offVars>>

\* handleNext, from the Next button.
HandleNext ==
    /\ UserCan
    /\ TableShown
    /\ hasNextPage
    /\ Truthy(state.afterToken)
    /\ LET st == [state EXCEPT !.currentPage = state.currentPage + 1]
       IN  Invoke(FetchSales(state, st, "next", dataCache, now), "next", TRUE)
    /\ nav' = [pageBefore |-> state.currentPage, user |-> nUser + 1, resp |-> Null]
    /\ nUser' = nUser + 1
    /\ UNCHANGED <<now, tokenCache, authCalls, effectDeps, fetched, offVars>>

\* handlePrevious, from the Previous button.
HandlePrevious ==
    /\ UserCan
    /\ TableShown
    /\ hasPreviousPage
    /\ Truthy(state.beforeToken) /\ state.currentPage > 1
    /\ Invoke(FetchSales(state, PreviousPage(state), "prev", dataCache, now), "prev", FALSE)
    /\ nUser' = nUser + 1
    /\ UNCHANGED <<now, tokenCache, authCalls, effectDeps, fetched, nav, offVars>>

\* onRefresh: fetchSales(), from the Refresh button.
Refresh ==
    /\ UserCan
    /\ ~(state.loading \/ ~isDateRangeValid(state))
    /\ Invoke(FetchSales(state, state, "none", dataCache, now), "refresh", FALSE)
    /\ nUser' = nUser + 1
    /\ UNCHANGED <<now, tokenCache, authCalls, effectDeps, fetched, nav, offVars>>

\* Variant: the response is stored under the key of the values on display
\* when it arrives.
StoreKeyOfDisplay(req, st) == getCacheKey(BuildFilters(st, "none"))

\* The key dataCache.set is called with after the await: the cacheKey
\* constant of the invocation that sent the request.
StoreKey(req, st) == req.cacheKey

\* A GET /sales answers 2xx with a body that has results: the rest of
\* fetchSales' try block, and its finally.
SalesResponseOk(i, data) ==
    /\ Settled
    /\ LET req == inflight[i]
       IN  /\ state' = [Adopt(state, data) EXCEPT !.loading = FALSE]
           /\ dataCache' = CacheSet(dataCache, StoreKey(req, state), data, now)
           /\ fetched' = MapSet(fetched, req.cacheKey, [data |-> data, timestamp |-> now])
           /\ latest' = IF req.latest THEN [latest EXCEPT !.result = "ok"] ELSE latest
           /\ nav' = IF req.nav /\ nav.user = nUser
                     THEN [nav EXCEPT !.resp = Some(data)] ELSE nav
    /\ inflight' = RemoveAt(inflight, i)
    /\ call' = [NoCall EXCEPT !.outcome = "ok", !.cacheKey = inflight[i].cacheKey,
                              !.trigger = "response"]
    /\ UNCHANGED <<now, tokenCache, authCalls, effectDeps, nUser, offVars>>

\* Variant: a failure that also empties the table and the chart.
FetchFailedClears(st) ==
    [st EXCEPT !.error = Some(E_Load), !.loading = FALSE,
               !.totalSalesData = <<>>, !.salesData = <<>>]

\* fetchSales' catch block and its finally.
FetchFailed(st) == [st EXCEPT !.error = Some(E_Load), !.loading = FALSE]

\* A GET /sales fails, answers non-2xx, or its body has no results: the
\* catch block, and the finally.
SalesResponseFail(i, kind) ==
    /\ Settled
    /\ latest' = IF inflight[i].latest THEN [latest EXCEPT !.result = "fail"] ELSE latest
    /\ state' = FetchFailed(state)
    /\ inflight' = RemoveAt(inflight, i)
    /\ call' = [NoCall EXCEPT !.outcome = "failed", !.cacheKey = inflight[i].cacheKey,
                              !.trigger = "response"]
    /\ UNCHANGED <<now, tokenCache, dataCache, authCalls, effectDeps, nUser, fetched,
                   nav, offVars>>

\* Time passes.
Tick ==
    /\ Settled
    /\ now < MaxClock
    /\ now' = now + 1
    /\ call' = NoCall
    /\ UNCHANGED <<state, tokenCache, dataCache, authCalls, inflight, effectDeps, nUser,
                   latest, fetched, nav, offVars>>

Next ==
    \/ \E tok \in Tokens : AuthorizeOk(tok)
    \/ AuthorizeFail
    \/ FlushEffect
    \/ \E field \in FilterFields : \E v \in FilterValues(field) : SetFilter(field, v)
    \/ \E field \in SortFields : HandleSort(field)
    \/ HandleNext
    \/ HandlePrevious
    \/ Refresh
    \/ \E i \in DOMAIN inflight : \E data \in ServerResponses(inflight[i]) :
            SalesResponseOk(i, data)
    \/ \E i \in DOMAIN inflight : \E kind \in FailureKinds : SalesResponseFail(i, kind)
    \/ Tick

Spec == Init /\ [][Next]_vars

(***************************************************************************)
(* Properties of the SalesDashboard component.                             *)
(***************************************************************************)
\* Every request has arrived and no effect is waiting.
Quiet == Settled /\ inflight = <<>> /\ authCalls = 0

\* The response the display shows the totals, rows and cursors of.
Shows(data) ==
    /\ state.totalSalesData = data.results.TotalSales
    /\ state.salesData = data.results.Sales
    /\ state.beforeToken = OrEmpty(data.pagination.before)
    /\ state.afterToken = OrEmpty(data.pagination.after)

\* C3: once every response has arrived, the totals, rows and cursors on
\* display are those of the most recently initiated fetch, whatever the
\* order the responses arrived in.
C3_DisplayIsLatestFetch ==
    (Quiet /\ isDateRangeValid(state) /\ latest.result \in {"ok", "hit"})
        => Shows(fetched[latest.cacheKey].data)

\* C4: when the request of goNext has succeeded with response R and the user
\* has not acted since, the component comes to rest showing R, with R's
\* cursors, one page after the page goNext was invoked on.
C4_NextSettlesOnResponse ==
    (Quiet /\ ~IsNull(nav.resp) /\ nav.user = nUser)
        => /\ Shows(nav.resp.v)
           /\ state.currentPage = nav.pageBefore + 1

\* C5: a step changes currentPage only as goNext (+1), as goPrevious (-1),
\* or as the reset to 1 that a change of a filter field or of the sort state
\* brings; the completion of a fetch and the adoption of a cached response
\* leave it alone.
C5_PageChangedOnlyByNavigationFilterSort ==
    [][state'.currentPage # state.currentPage
        => \/ call'.trigger = "next" /\ state'.currentPage = state.currentPage + 1
           \/ call'.trigger = "prev" /\ state'.currentPage = state.currentPage - 1
           \/ /\ state'.currentPage = 1
              /\ \/ call'.trigger \in {"filter", "sort"}
                 \/ state'.sortBy # state.sortBy
                 \/ state'.sortOrder # state.sortOrder]_vars

\* C6: no request in flight carries both a non-empty after and a non-empty
\* before.
C6_AtMostOneCursorSent ==
    \A i \in DOMAIN inflight :
        ~(Truthy(Param(inflight[i].url, S_after)) /\ Truthy(Param(inflight[i].url, S_before)))

\* goNext was invoked with both cursors set, and its request is in flight.
C6_Witness ==
    /\ Truthy(state.beforeToken) /\ Truthy(state.afterToken)
    /\ \E i \in DOMAIN inflight :
           inflight[i].nav /\ Param(inflight[i].url, S_after) = state.afterToken

\* C7: the effect run for a changed filter field leaves currentPage at 1; the
\* fetch it makes is keyed by parameters without cursor, the request it sends
\* has neither after nor before, and the cursors are empty until a response
\* (here, possibly the cached one) is adopted.
C7_FilterChangeResetsPaging ==
    call.trigger = "filter"
        => /\ state.currentPage = 1
           /\ call.outcome \in {"hit", "miss"}
                => call.cacheKey = getCacheKey(BuildFilters(state, "none"))
           /\ call.outcome \in {"miss", "invalid", "noToken"}
                => state.beforeToken = Empty /\ state.afterToken = Empty
           /\ call.sent
                => /\ Param(inflight[Len(inflight)].url, S_after) = Empty
                   /\ Param(inflight[Len(inflight)].url, S_before) = Empty
                   /\ inflight[Len(inflight)].cacheKey = call.cacheKey

\* A filter field was changed on page 2 with both cursors set, and the effect
\* has sent its request.
C7_Witness ==
    /\ call.trigger = "filter" /\ call.sent
    /\ call.pageBefore = 2
    /\ Truthy(effectDeps[9]) /\ Truthy(effectDeps[10])

\* C8: a fetch whose parameters are those of a successful fetch stored less
\* than the TTL ago sends no request, leaves loading false and shows the
\* stored response's totals, rows and cursors.
C8_FreshParamsHitCache ==
    call.fresh
        => /\ call.outcome = "hit"
           /\ ~call.sent
           /\ ~state.loading
           /\ Shows(fetched[call.cacheKey].data)

\* Refresh repeated the fetch of the rows on display within the TTL.
C8_Witness ==
    /\ call.fresh /\ call.trigger = "refresh" /\ call.outcome = "hit"
    /\ state.salesData # <<>>
    /\ Truthy(state.afterToken)

\* C12: after the authorization request has failed, the token cache holds
\* nothing, the component holds no token, the authorization error is on
\* display, and no sales request is sent or answered; and no sales request is
\* ever in flight while the component holds no token.
C12_AuthFailureBlocksQuerying ==
    /\ IsNull(state.authToken) => inflight = <<>> /\ ~call.sent /\ fetched = <<>>
    /\ (authCalls = 0 /\ IsNull(state.authToken))
          => /\ tokenCache.cache = <<>>
             /\ state.error = Some(E_Authorize)
             /\ dataCache.cache = <<>>
             /\ state.salesData = <<>> /\ ~state.loading

\* Authorization failed, and the user then changed a filter and pressed
\* Refresh: fetchSales returned at its token guard.
C12_Witness ==
    /\ authCalls = 0 /\ IsNull(state.authToken)
    /\ nUser = MaxUser
    /\ call.trigger = "refresh" /\ call.outcome = "noToken"
    /\ state.email # Empty

\* C14: the step in which a fetch fails sets the error message, leaves the
\* totals, the rows and the response cache as they were and loading false;
\* the cache is fed by successful responses only, so a fetch of the failed
\* query finds no entry that the failure left.
C14_FailureKeepsDataAndCachesNothing ==
    /\ [](\A k \in DOMAIN dataCache.cache :
             k \in DOMAIN fetched /\ dataCache.cache[k] = fetched[k])
    /\ [][call'.outcome = "failed"
            => /\ state'.error = Some(E_Load)
               /\ ~state'.loading
               /\ state'.totalSalesData = state.totalSalesData
               /\ state'.salesData = state.salesData
               /\ dataCache' = dataCache]_vars

\* A fetch has failed while rows were on display, and its query has never
\* been answered: nothing is cached under its key.
C14_Witness ==
    /\ call.outcome = "failed"
    /\ state.salesData # <<>>
    /\ call.cacheKey \notin DOMAIN dataCache.cache

\* Both dates are set and the start date is after the end date.
Inverted(startDate, endDate) ==
    Truthy(startDate) /\ Truthy(endDate) /\ ~StrLeq(startDate, endDate)

\* C15: no request in flight has an inverted date range; a fetchSales call
\* made with an inverted range ends at the validation guard, with the
\* validation message set and nothing sent, and only such a call does.
C15_InvertedRangeNeverSent ==
    /\ \A i \in DOMAIN inflight :
           ~Inverted(Param(inflight[i].url, S_startDate), Param(inflight[i].url, S_endDate))
    /\ call.outcome \in {"hit", "miss", "invalid"}
          => (call.outcome = "invalid" <=> Inverted(state.startDate, state.endDate))
    /\ call.outcome = "invalid" => state.error = Some(E_Range) /\ ~call.sent

\* The start date was moved past the end date while rows were on display:
\* the effect's fetch stopped at the validation guard.
C15_Witness ==
    /\ call.outcome = "invalid" /\ call.trigger = "filter"
    /\ state.startDate = D_0201 /\ state.endDate = D_0131
    /\ state.salesData # <<>>

RECURSIVE SumFrom(_, _)
\* Array.prototype.reduce((sum, item) => sum + item.totalSale, sum)
SumFrom(items, sum) ==
    IF items = <<>> THEN sum ELSE SumFrom(Tail(items), sum + Head(items).totalSale)

\* Variant: the number of days for the sum of their sales.
totalSalesCount(st) == Len(st.totalSalesData)

totalSalesSum(st) == SumFrom(st.totalSalesData, 0)

\* recordCount={salesData.length}
recordCount(st) == Len(st.salesData)

\* C19: the step in which a request is answered with response R leaves the
\* totals, rows and cursors of R on display, R in the cache under the
\* request's key with the time of the answer, and loading false; the total
\* shown is the sum of R's daily totals (500 for the non-empty answer), the
\* record count is the number of R's rows, next is enabled iff R's after is
\* non-empty, previous iff R's before is non-empty and the page is above 1.
C19_SuccessPathShowsAndStoresResponse ==
    call.outcome = "ok" =>
        LET R == fetched[call.cacheKey].data
        IN  /\ Shows(R)
            /\ ~state.loading
            /\ call.cacheKey \in DOMAIN dataCache.cache
            /\ dataCache.cache[call.cacheKey] = [data |-> R, timestamp |-> now]
            /\ totalSalesSum(state) = (IF R.results.TotalSales = <<>> THEN 0 ELSE 500)
            /\ recordCount(state) = Len(R.results.Sales)
            /\ hasNextPage <=> R.pagination.after # Empty
            /\ hasPreviousPage <=> (R.pagination.before # Empty /\ state.currentPage > 1)

\* The first page was answered with one row, daily totals of 200 and 300 and
\* an after cursor only.
C19_Witness ==
    /\ call.outcome = "ok"
    /\ totalSalesSum(state) = 500 /\ recordCount(state) = 1
    /\ state.afterToken = C_1 /\ state.currentPage = 1
    /\ hasNextPage /\ ~hasPreviousPage

\* {error && <div>...} of SalesDashboard; every message set is non-empty.
ErrorShown == ~IsNull(state.error)

\* SalesTable's loading branch.
SpinnerShown == state.loading

\* SalesTable's "No sales found" branch.
EmptyShown == ~state.loading /\ state.salesData = <<>>

\* C20: at most one of the spinner, the error message and the "No sales
\* found" text is on screen.
C20_UiStatesExclusive ==
    /\ ~(ErrorShown /\ SpinnerShown)
    /\ ~(ErrorShown /\ EmptyShown)
    /\ ~(SpinnerShown /\ EmptyShown)

\* s starts with p.
IsPrefix(p, s) == Len(p) <= Len(s) /\ SubSeq(s, 1, Len(p)) = p

\* The rows on display answer a query with the filters and the sort state
\* of st, with or without a cursor: the key of a cursor-less request, less
\* its closing brace, begins the key of the query.
RowsOfCurrentQuery(st) ==
    /\ st.salesData # <<>>
    /\ LET k == getCacheKey(BuildFilters(st, "none"))
       IN  IsPrefix(SubSeq(k, 1, Len(k) - 1), st.salesData[1]._id)

\* C21: the step in which Refresh calls fetchSales leaves the filters, the
\* sort state and currentPage as they were, sends a request only when the
\* cache has no fresh entry under its key, and, when the rows on display
\* answer the current filters and sort, its fetch is keyed by the query of
\* those rows, cursor included, so that the page on display is re-fetched.
C21_RefreshRefetchesDisplayedPage ==
    [][call'.trigger = "refresh"
         => /\ \A f \in FilterFields : state'[f] = state[f]
            /\ state'.sortBy = state.sortBy /\ state'.sortOrder = state.sortOrder
            /\ state'.currentPage = state.currentPage
            /\ call'.sent <=> call'.outcome = "miss"
            /\ (RowsOfCurrentQuery(state) /\ call'.outcome \in {"hit", "miss"})
                  => call'.cacheKey = state.salesData[1]._id]_vars

\* C24: currentPage is at least 1 in every state the component reaches by
\* next, previous, filter changes, sorts and refreshes interleaved with the
\* completions of its fetches.
C24_PageNumberAtLeastOne == state.currentPage >= 1

\* Previous was pressed on page 2: the component is on page 1 and still
\* holds a before cursor.
C24_Witness ==
    /\ call.trigger = "prev" /\ call.pageBefore = 2
    /\ state.currentPage = 1
    /\ Truthy(state.beforeToken)

\* The rows of a response are those the server returns for the query key.
AnswersQuery(data, key) ==
    \A j \in DOMAIN data.results.Sales : data.results.Sales[j]._id = key

\* C25: the key a request in flight will be stored under is the
\* serialization of the parameters it was sent with, and every entry of the
\* response cache under a key k is a response the server returned for a
\* request with key k, whatever the order the responses arrived in.
C25_CacheEntriesAnswerTheirKey ==
    /\ \A i \in DOMAIN inflight : inflight[i].cacheKey = getCacheKey(inflight[i].url)
    /\ \A k \in DOMAIN dataCache.cache :
          /\ AnswersQuery(dataCache.cache[k].data, k)
          /\ k \in DOMAIN fetched
          /\ dataCache.cache[k] = fetched[k]

\* Two requests were in flight and the older one was answered last: its
\* rows are on display and both responses are cached, each under its key.
C25_Witness ==
    /\ call.outcome = "ok" /\ latest.result = "ok"
    /\ call.cacheKey # latest.cacheKey
    /\ \A k \in {call.cacheKey, latest.cacheKey} :
          k \in DOMAIN dataCache.cache /\ dataCache.cache[k].data.results.Sales # <<>>

\* C26: loading is true exactly while a sales request that was sent has not
\* been answered.
C26_LoadingTracksInflight == state.loading <=> inflight # <<>>

\* C27: a sales request is sent with a token that the authorization
\* endpoint returned less than one hour before.
C27_RequestTokenWithinTtl ==
    call.sent =>
        /\ TOKEN_CACHE_KEY \in DOMAIN tokenCache.cache
        /\ tokenCache.cache[TOKEN_CACHE_KEY].data = inflight[Len(inflight)].token
        /\ now - tokenCache.cache[TOKEN_CACHE_KEY].timestamp < OneHour

AuthCompletes == (\E tok \in Tokens : AuthorizeOk(tok)) \/ AuthorizeFail

\* A sales request in flight completes.
SalesCompletes ==
    \/ \E i \in DOMAIN inflight : \E data \in ServerResponses(inflight[i]) :
            SalesResponseOk(i, data)
    \/ \E i \in DOMAIN inflight : \E kind \in FailureKinds : SalesResponseFail(i, kind)

\* The filter inputs the user changes in SpecLive.
LiveFields == {"startDate", "email"}

NextLive ==
    \/ AuthCompletes
    \/ FlushEffect
    \/ \E field \in LiveFields : \E v \in FilterValues(field) : SetFilter(field, v)
    \/ \E field \in SortFields : HandleSort(field)
    \/ HandleNext
    \/ HandlePrevious
    \/ Refresh
    \/ SalesCompletes
    \/ Tick

SpecLive ==
    /\ Init
    /\ [][NextLive]_vars
    /\ WF_vars(FlushEffect)
    /\ WF_vars(AuthCompletes)
    /\ WF_vars(SalesCompletes)

\* Nothing is in flight, no effect is waiting and loading is false.
Quiescent == Quiet /\ ~state.loading

\* C28: when every request completes, the component comes to rest after the
\* user's last action, with nothing in flight and loading false, and stays
\* at rest; and a step from rest that is not a user action sends nothing and
\* leaves the component at rest.
C28_Quiescence ==
    /\ <>[]Quiescent
    /\ [][(Quiescent /\ nUser' = nUser) => (Quiescent' /\ inflight' = <<>>)]_vars

\* The user's last action is done and the component is at rest after an
\* effect run that a response's new cursors caused and the cache answered.
C28_Witness ==
    /\ Quiescent /\ nUser = MaxUser
    /\ call.trigger = "cursor" /\ call.outcome = "hit"
    /\ state.salesData # <<>>

(***************************************************************************)
(* SpecAuth: getAuthToken called again and again against the module's      *)
(* token cache, with the POST /getAuthorize requests it sends answered in  *)
(* any order and the clock advancing.  A token is a non-empty string.      *)
(* got.stored is the reference the cache is compared with: the token of    *)
(* the last successful response and the time it arrived at.                *)
(***************************************************************************)
MaxAuth == 2

NewTokens == {<<"T">>, <<"U">>}

\* Variant: getAuthToken that never looks at the cache.
GetAuthTokenNoCache(c, t) == [outcome |-> "request", token |-> Null, cache |-> c]

\* getAuthToken up to its return or its await, on token cache c at time t.
GetAuthToken(c, t) ==
    LET g == CacheGet(c, TOKEN_CACHE_KEY, t)
    IN  IF TruthyOrNull(g.value)
        THEN [outcome |-> "cached", token |-> g.value, cache |-> g.cache]
        ELSE [outcome |-> "request", token |-> Null, cache |-> g.cache]

\* getAuthToken after its await: tokenCache.set(TOKEN_CACHE_KEY, data.token).
StoreToken(c, tok, t) == CacheSet(c, TOKEN_CACHE_KEY, tok, t)

StoredFresh(g, t) == ~IsNull(g.stored) /\ t - g.stored.v.timestamp < OneHour

InitAuth ==
    /\ now = 0
    /\ tokenCache = NewCache(OneHour)
    /\ authCalls = 0
    /\ got = [op |-> "none", token |-> Null, sent |-> 0, wasFresh |-> FALSE,
              stored |-> Null]
    /\ state = <<>> /\ dataCache = <<>> /\ inflight = <<>> /\ effectDeps = <<>>
    /\ nUser = 0 /\ call = <<>> /\ latest = <<>> /\ fetched = <<>> /\ nav = <<>>
    /\ store = <<>> /\ ret = <<>> /\ ref = <<>> /\ gone = <<>>
    /\ p1 = <<>> /\ p2 = <<>> /\ key1 = <<>> /\ key2 = <<>> /\ phase = "off"
    /\ swr = <<>>

authOff == <<state, dataCache, inflight, effectDeps, nUser, call, latest, fetched, nav,
             store, ret, ref, gone, p1, p2, key1, key2, phase, swr>>

\* A caller invokes getAuthToken.
CallGetAuthToken ==
    /\ authCalls < MaxAuth
    /\ LET r == GetAuthToken(tokenCache, now)
       IN  /\ tokenCache' = r.cache
           /\ authCalls' = IF r.outcome = "request" THEN authCalls + 1 ELSE authCalls
           /\ got' = [got EXCEPT !.op = r.outcome, !.token = r.token,
                                 !.sent = IF r.outcome = "request" THEN 1 ELSE 0,
                                 !.wasFresh = StoredFresh(got, now)]
    /\ UNCHANGED <<now, authOff>>

\* POST /getAuthorize answers 2xx with a token.
AuthResponseOk(tok) ==
    /\ authCalls > 0
    /\ authCalls' = authCalls - 1
    /\ tokenCache' = StoreToken(tokenCache, tok, now)
    /\ got' = [got EXCEPT !.op = "ok", !.token = Some(tok), !.sent = 0,
                          !.stored = Some([data |-> tok, timestamp |-> now])]
    /\ UNCHANGED <<now, authOff>>

\* POST /getAuthorize fails or answers non-2xx: getAuthToken throws.
AuthResponseFail(kind) ==
    /\ authCalls > 0
    /\ authCalls' = authCalls - 1
    /\ got' = [got EXCEPT !.op = "fail", !.token = Null, !.sent = 0]
    /\ UNCHANGED <<now, tokenCache, authOff>>

AuthTick ==
    /\ now < MaxTime
    /\ now' = now + 1
    /\ got' = [got EXCEPT !.op = "tick", !.token = Null, !.sent = 0]
    /\ UNCHANGED <<tokenCache, authCalls, authOff>>

NextAuth ==
    \/ CallGetAuthToken
    \/ \E tok \in NewTokens : AuthResponseOk(tok)
    \/ \E kind \in {"network", "status"} : AuthResponseFail(kind)
    \/ AuthTick

SpecAuth == InitAuth /\ [][NextAuth]_vars

\* C11: getAuthToken sends no authorization request and returns the stored
\* token when a token was stored less than the TTL ago; it sends exactly one
\* request when none was stored or the stored one has expired; after a
\* successful response the cache holds the token just returned, stamped with
\* the time of the response.
C11_TokenCachedForOneHour ==
    /\ got.op \in {"cached", "request"} =>
          IF got.wasFresh
          THEN got.op = "cached" /\ got.sent = 0 /\ got.token = Some(got.stored.v.data)
          ELSE got.op = "request" /\ got.sent = 1
    /\ got.op = "ok" =>
          /\ TOKEN_CACHE_KEY \in DOMAIN tokenCache.cache
          /\ tokenCache.cache[TOKEN_CACHE_KEY] = [data |-> got.token.v, timestamp |-> now]
          /\ DOMAIN tokenCache.cache = {TOKEN_CACHE_KEY}

\* A call found the stored token expired and sent a request while an older
\* token had been stored.
C11_Witness ==
    /\ got.op = "request" /\ got.sent = 1
    /\ ~IsNull(got.stored) /\ now - got.stored.v.timestamp = OneHour


(***************************************************************************)
(* SpecSwr: the authorization of the SalesDashboard variant that keeps the *)
(* token in localStorage and fetches with useSWR.  swr holds its token and *)
(* error states, the error SWR reports for the sales query, the values the *)
(* error-state effect last ran with, the POST /getAuthorize requests in    *)
(* flight, the localStorage item "authToken" and the time the auto-refresh *)
(* timer was armed at.  Effects are flushed before the next event.         *)
(***************************************************************************)
E_AuthStatus == "Authorization failed: 500"
E_AuthNetwork == "Failed to fetch"
E_SalesStatus == "Failed to fetch sales data: 500"

\* Times before the page was loaded at which a token may have been stored.
StoredAt == {0 - OneHour - 1, 0 - OneHour, 0}

\* isTokenExpired(timestamp) at time t.
isTokenExpired(timestamp, t) == t - timestamp > OneHour

\* The screen the component returns.
Screen(w) ==
    IF IsNull(w.token) /\ IsNull(w.error) THEN "authenticating"
    ELSE IF ~IsNull(w.error) /\ IsNull(w.token) THEN "authError"
    ELSE "dashboard"

SwrSettled == swr.effectDeps = <<swr.error, swr.salesError>>

\* The error-state effect's body.
ErrorEffect(w) ==
    IF ~IsNull(w.salesError) THEN [w EXCEPT !.error = w.salesError]
    ELSE IF ~IsNull(w.error) THEN [w EXCEPT !.error = Null]
    ELSE w

\* The state after the mount effect, for a localStorage item found at mount.
Mounted(item) ==
    LET usable == ~IsNull(item) /\ ~isTokenExpired(item.v.timestamp, 0)
    IN  [token |-> IF usable THEN Some(item.v.token) ELSE Null,
         error |-> Null, salesError |-> Null, effectDeps |-> <<Null, Null>>,
         calls |-> IF usable THEN 0 ELSE 1,
         storage |-> IF usable THEN item ELSE Null,
         timer |-> IF usable THEN Some(0) ELSE Null,
         retried |-> FALSE]

InitSwr ==
    /\ now = 0
    /\ \E item \in {Null} \cup {Some([token |-> <<"T">>, timestamp |-> ts]) : ts \in StoredAt} :
           swr = Mounted(item)
    /\ got = <<>>
    /\ state = <<>> /\ tokenCache = <<>> /\ dataCache = <<>> /\ authCalls = 0
    /\ inflight = <<>> /\ effectDeps = <<>>
    /\ nUser = 0 /\ call = <<>> /\ latest = <<>> /\ fetched = <<>> /\ nav = <<>>
    /\ store = <<>> /\ ret = <<>> /\ ref = <<>> /\ gone = <<>>
    /\ p1 = <<>> /\ p2 = <<>> /\ key1 = <<>> /\ key2 = <<>> /\ phase = "off"

swrOff == <<state, tokenCache, dataCache, authCalls, inflight, effectDeps, nUser, call,
            latest, fetched, nav, got, store, ret, ref, gone, p1, p2, key1, key2, phase>>

\* getToken's request answers 2xx: the item is stored, the token set, and
\* the auto-refresh effect arms its timer for the new token.
SwrGetTokenOk(tok) ==
    /\ SwrSettled
    /\ swr.calls > 0
    /\ swr' = [swr EXCEPT !.calls = swr.calls - 1,
                          !.storage = Some([token |-> tok, timestamp |-> now]),
                          !.token = Some(tok),
                          !.timer = IF swr.token = Some(tok) THEN swr.timer ELSE Some(now)]
    /\ UNCHANGED <<now, swrOff>>

\* getToken's request fails or answers non-2xx: the catch block.
SwrGetTokenFail(msg) ==
    /\ SwrSettled
    /\ swr.calls > 0
    /\ swr' = [swr EXCEPT !.calls = swr.calls - 1, !.error = Some(msg)]
    /\ UNCHANGED <<now, swrOff>>

\* The error-state effect, run for the render that changed error or salesError.
SwrErrorEffect ==
    /\ ~SwrSettled
    /\ swr' = [ErrorEffect(swr) EXCEPT !.effectDeps = <<swr.error, swr.salesError>>]
    /\ UNCHANGED <<now, swrOff>>

\* A click on "Retry Authentication": the button is on screen from the
\* render that shows the error, which is before the error-state effect of
\* that render is flushed.
SwrRetry ==
    /\ Screen(swr) = "authError"
    /\ swr.calls < MaxAuth
    /\ swr' = [swr EXCEPT !.calls = swr.calls + 1, !.retried = TRUE]
    /\ UNCHANGED <<now, swrOff>>

\* The auto-refresh timer fires one hour after it was armed.
SwrTimer ==
    /\ SwrSettled
    /\ ~IsNull(swr.token) /\ ~IsNull(swr.timer)
    /\ now - swr.timer.v >= OneHour
    /\ swr.calls < MaxAuth
    /\ swr' = [swr EXCEPT !.storage = Null, !.calls = swr.calls + 1, !.timer = Null]
    /\ UNCHANGED <<now, swrOff>>

\* SWR reports the sales query as failed, or as answered.
SwrSales(err) ==
    /\ SwrSettled
    /\ ~IsNull(swr.token)
    /\ swr.salesError # err
    /\ swr' = [swr EXCEPT !.salesError = err]
    /\ UNCHANGED <<now, swrOff>>

SwrTick ==
    /\ SwrSettled
    /\ now < MaxTime
    /\ now' = now + 1
    /\ UNCHANGED <<swr, swrOff>>

NextSwr ==
    \/ \E tok \in NewTokens : SwrGetTokenOk(tok)
    \/ \E msg \in {E_AuthStatus, E_AuthNetwork} : SwrGetTokenFail(msg)
    \/ SwrErrorEffect
    \/ SwrRetry
    \/ SwrTimer
    \/ \E err \in {Null, Some(E_SalesStatus)} : SwrSales(err)
    \/ SwrTick

SpecSwr == InitSwr /\ [][NextSwr]_vars

\* C13: with no token held and no authorization request in flight (the last
\* one has failed and no retry was started), the authentication error screen
\* with its "Retry Authentication" button is what the component shows.
C13_RetryOfferedAfterAuthFailure ==
    (SwrSettled /\ IsNull(swr.token) /\ swr.calls = 0)
        => Screen(swr) = "authError"


\* C30: the token in use is at most one hour old: while the stored token is
\* the one in use it is no older than one hour unless its replacement is
\* due, and the auto-refresh timer armed for it is due no later than one
\* hour after the timestamp it was stored with.
C30_TokenInUseWithinOneHour ==
    (/\ ~IsNull(swr.token) /\ ~IsNull(swr.storage)
     /\ swr.storage.v.token = swr.token.v
     /\ ~IsNull(swr.timer)) =>
        /\ swr.timer.v + OneHour <= swr.storage.v.timestamp + OneHour
        /\ now < swr.timer.v + OneHour => now - swr.storage.v.timestamp <= OneHour

(***************************************************************************)
(* SpecNav: the handlers handleNext, handlePrevious and handleSort, and    *)
(* the setters that adopt a response, applied to any state of the          *)
(* component: the handlers are called whatever the buttons' disabled       *)
(* attributes say.  ret keeps the handler, its argument, the state it was  *)
(* applied to and the response adopted before it, if any.                  *)
(***************************************************************************)
MaxPage == 2

OneRow == <<[_id |-> <<"r">>, price |-> 500]>>

OneTotal == <<[day |-> D_0101, totalSale |-> 500]>>

NavStates ==
    {[InitialState EXCEPT !.authToken = Some(<<"T">>), !.startDate = sd,
                          !.currentPage = pg, !.beforeToken = b, !.afterToken = a,
                          !.sortBy = sb, !.sortOrder = so, !.loading = ld, !.error = er,
                          !.salesData = rows,
                          !.totalSalesData = IF rows = <<>> THEN <<>> ELSE OneTotal] :
        sd \in {D_0101, D_0201}, pg \in 1..MaxPage, b \in {Empty, C_1}, a \in {Empty, C_2},
        sb \in SortFields, so \in {S_asc, S_desc}, ld \in BOOLEAN,
        er \in {Null, Some(E_Load)}, rows \in {<<>>, OneRow}}

NavResponses ==
    {[results |-> [TotalSales |-> IF rows = <<>> THEN <<>> ELSE OneTotal, Sales |-> rows],
      pagination |-> [before |-> b, after |-> a]] :
        rows \in {<<>>, OneRow}, b \in {Empty, C_1}, a \in {Empty, C_2}}

InitNav ==
    /\ now = 0
    /\ state \in NavStates
    /\ tokenCache = NewCache(OneHour)
    /\ dataCache = NewCache(OneHour)
    /\ authCalls = 0
    /\ inflight = <<>>
    /\ effectDeps = <<>>
    /\ nUser = 0
    /\ call = NoCall
    /\ latest = [cacheKey |-> <<>>, result |-> "none"]
    /\ fetched = <<>>
    /\ nav = NoNav
    /\ ret = [op |-> "none", arg |-> <<>>, before |-> <<>>, adopted |-> Null]
    /\ phase = "input"
    /\ store = <<>> /\ ref = <<>> /\ gone = <<>>
    /\ p1 = <<>> /\ p2 = <<>> /\ key1 = <<>> /\ key2 = <<>>
    /\ got = <<>> /\ swr = <<>>

navOff == <<now, tokenCache, authCalls, effectDeps, nUser, fetched, nav, store, ref, gone,
            p1, p2, key1, key2, got, swr>>

\* Variant: previous is allowed on any page.
CanGoPreviousAnyPage(cl) == Truthy(cl.beforeToken)

\* handlePrevious' condition.
CanGoPrevious(cl) == Truthy(cl.beforeToken) /\ cl.currentPage > 1

\* Variant: next is allowed without a cursor.
CanGoNextAlways(cl) == TRUE

\* handleNext's condition.
CanGoNext(cl) == Truthy(cl.afterToken)

\* A handler returned without calling a setter or fetchSales.
Noop(trigger) ==
    /\ call' = [NoCall EXCEPT !.outcome = "noop", !.trigger = trigger]
    /\ UNCHANGED <<state, dataCache, inflight, latest>>

\* The setters of a successful response or of a cache hit, then setLoading(false).
adopt(data) ==
    /\ phase = "input"
    /\ IsNull(ret.adopted)
    /\ state' = [Adopt(state, data) EXCEPT !.loading = FALSE]
    /\ ret' = [op |-> "adopt", arg |-> data, before |-> state, adopted |-> Some(data)]
    /\ call' = NoCall
    /\ UNCHANGED <<phase, dataCache, inflight, latest, navOff>>

handleNext ==
    /\ phase = "input"
    /\ IF CanGoNext(state)
       THEN Invoke(FetchSales(state, [state EXCEPT !.currentPage = state.currentPage + 1],
                              "next", dataCache, now), "next", TRUE)
       ELSE Noop("next")
    /\ ret' = [ret EXCEPT !.op = "handleNext", !.arg = <<>>, !.before = state]
    /\ phase' = "done"
    /\ UNCHANGED navOff

handlePrevious ==
    /\ phase = "input"
    /\ IF CanGoPrevious(state)
       THEN Invoke(FetchSales(state, PreviousPage(state), "prev", dataCache, now),
                   "prev", FALSE)
       ELSE Noop("prev")
    /\ ret' = [ret EXCEPT !.op = "handlePrevious", !.arg = <<>>, !.before = state]
    /\ phase' = "done"
    /\ UNCHANGED navOff

handleSort(field) ==
    /\ phase = "input"
    /\ state' = SortToggle(state, field)
    /\ call' = [NoCall EXCEPT !.trigger = "sort"]
    /\ ret' = [ret EXCEPT !.op = "handleSort", !.arg = field, !.before = state]
    /\ phase' = "done"
    /\ UNCHANGED <<dataCache, inflight, latest, navOff>>

NextNav ==
    \/ \E data \in NavResponses : adopt(data)
    \/ handleNext
    \/ handlePrevious
    \/ \E field \in SortFields : handleSort(field)

SpecNav == InitNav /\ [][NextNav]_vars

\* C16: handlePrevious called on page 1 or with an empty beforeToken sends
\* nothing and leaves every state value, the cache included, as it was.
C16_PreviousIsNoopOnFirstPage ==
    (ret.op = "handlePrevious"
        /\ (ret.before.currentPage = 1 \/ ret.before.beforeToken = Empty))
        => /\ state = ret.before
           /\ inflight = <<>> /\ ~call.sent
           /\ dataCache = NewCache(OneHour)

\* handlePrevious was called on page 1 although a before cursor was held.
C16_Witness ==
    /\ ret.op = "handlePrevious"
    /\ ret.before.currentPage = 1 /\ ret.before.beforeToken = C_1
    /\ state = ret.before


\* C17: once a response whose after is empty has been adopted, afterToken
\* is the empty string and the next-page control is disabled; handleNext
\* called with an empty afterToken sends nothing and leaves every state
\* value, the cache included, as it was.
C17_NoNextWithoutAfterCursor ==
    /\ (ret.op = "adopt" /\ ~Truthy(ret.arg.pagination.after))
          => state.afterToken = Empty /\ ~hasNextPage
    /\ (ret.op = "handleNext" /\ ret.before.afterToken = Empty)
          => /\ state = ret.before
             /\ inflight = <<>> /\ ~call.sent
             /\ dataCache = NewCache(OneHour)

\* A response without after cursor was adopted on page 2, replacing a
\* non-empty beforeToken, and handleNext was called then.
C17_Witness ==
    /\ ret.op = "handleNext"
    /\ ~IsNull(ret.adopted) /\ ret.adopted.v.pagination.after = Empty
    /\ ret.adopted.v.pagination.before = C_1
    /\ ret.before.currentPage = 2
    /\ state = ret.before

\* C18: handleSort(f) on the sort state (sortBy, sortOrder) gives
\* (f, the other order) when f = sortBy and (f, asc) when f # sortBy.
C18_SortToggleRule ==
    ret.op = "handleSort"
        => /\ state.sortBy = ret.arg
           /\ state.sortOrder =
                 IF ret.arg # ret.before.sortBy THEN S_asc
                 ELSE IF ret.before.sortOrder = S_asc THEN S_desc
                 ELSE S_asc

\* handleSort was called on the active field while the order was desc.
C18_Witness ==
    /\ ret.op = "handleSort" /\ ret.arg = S_price
    /\ ret.before.sortBy = S_price /\ ret.before.sortOrder = S_desc
    /\ state.sortOrder = S_asc


(***************************************************************************)
(* SpecParams: the query string of GET /sales.  The repository has two     *)
(* fetchSalesData functions: the one the component of part_005 calls and   *)
(* the one src/lib/api.ts exports.  p1 is the params object, built as      *)
(* fetchSales builds its filters from a render's values and a direction;   *)
(* key1 and key2 are the URLSearchParams entries each function makes of    *)
(* it.                                                                     *)
(***************************************************************************)
\* fetchSalesData of src/lib/api.ts: an entry is appended only if (value).
ApiSearchParams(params) == SelectSeq(params, LAMBDA e : Truthy(e[2]))

\* The renders fetchSales may build its filters in.
ParamStates ==
    {[InitialState EXCEPT !.authToken = Some(<<"T">>), !.startDate = sd, !.endDate = ed,
                          !.priceMin = pm, !.email = em, !.phone = ph,
                          !.sortBy = sb, !.sortOrder = so,
                          !.beforeToken = b, !.afterToken = a] :
        sd \in {D_0101, Empty}, ed \in {D_0131, Empty}, pm \in {Empty, <<"5">>},
        em \in {Empty, <<"a">>}, ph \in {Empty, <<"1">>},
        sb \in SortFields, so \in {S_asc, S_desc}, b \in {Empty, C_1}, a \in {Empty, C_2}}

InitParams ==
    /\ \E st \in ParamStates, direction \in {"none", "next", "prev"} :
           p1 = BuildFilters(st, direction)
    /\ p2 = <<>>
    /\ key1 = Null /\ key2 = Null
    /\ phase = "input"
    /\ now = 0
    /\ store = <<>> /\ ret = <<>> /\ ref = <<>> /\ gone = <<>>
    /\ DashOff

\* fetchSalesData of part_005 builds its query string.
CallFetchSalesData ==
    /\ IsNull(key1)
    /\ key1' = Some(SearchParams(p1))
    /\ UNCHANGED <<now, cacheVars, p1, p2, key2, phase, dashVars>>

\* fetchSalesData of src/lib/api.ts builds its query string.
CallApiFetchSalesData ==
    /\ IsNull(key2)
    /\ key2' = Some(ApiSearchParams(p1))
    /\ UNCHANGED <<now, cacheVars, p1, p2, key1, phase, dashVars>>

NextParams == CallFetchSalesData \/ CallApiFetchSalesData

SpecParams == InitParams /\ [][NextParams]_vars

\* The parameters every request is to carry.
FixedNames == {S_startDate, S_endDate, S_priceMin, S_email, S_phone, S_sortBy, S_sortOrder}

\* Every fixed parameter is an entry of the query, with the value it has in
\* the params object, the empty string included.
CarriesFixedSet(query, params) ==
    \A name \in FixedNames : name \in Names(query) /\ Prop(query, name) = Prop(params, name)

\* C22: the query string either fetchSalesData builds has an entry for each
\* of startDate, endDate, priceMin, email, phone, sortBy and sortOrder, with
\* the empty string as value when the field is unset.
C22_EveryRequestCarriesFixedParameters ==
    /\ ~IsNull(key1) => CarriesFixedSet(key1.v, p1)
    /\ ~IsNull(key2) => CarriesFixedSet(key2.v, p1)

=============================================================================
